---- MODULE Spec2Model ----
(***************************************************************************)
(* RequestWrite of src/write.rs: the writer that streams a request body,   *)
(* finishes the request (do_finish: end of chunked body, response parse,   *)
(* retry on a recycled connection, cookies, redirects, stream hand-off)    *)
(* and is finished on drop when finish() was never called.                 *)
(*                                                                         *)
(* The blocking I/O points of do_finish are the steps of the model; the    *)
(* collaborators (connect_and_send_prelude, Response::from_read, Url::join,*)
(* the stream's write/flush) answer nondeterministically.                  *)
(***************************************************************************)
EXTENDS Integers, Sequences, FiniteSets, TLC

VARIABLES
    writers,   \* the RequestWrite instances, writers[1] the caller's, writers[n+1] made by a redirect of writers[n]
    streams,   \* every stream connect_and_send_prelude returned: what was sent on it, who holds it
    pc,        \* where the program is: "open", the steps of do_finish, "unwind", "done"
    cur,       \* the writer whose do_finish is running (or has just returned)
    via,       \* who entered do_finish on writers[1]: "none", "finish", "drop"
    resp,      \* the local `resp` of the running do_finish
    outcome,   \* what the innermost do_finish returned: Ok(resp), Err(e) or a panic
    returned,  \* the Response finish() gave its caller
    panicked,  \* a panic left finish() or drop()
    last_io,   \* the result of the write or flush call that has just returned ("none" otherwise)
    written,   \* history: the number of write calls with a non-empty buffer on writers[1]
    log        \* history: the calls made to the collaborators, in order

vars == <<writers, streams, pc, cur, via, resp, outcome, returned, panicked,
          last_io, written, log>>

----------------------------------------------------------------------------
(* Bounds *)

MaxRedirects == 2   \* the largest redirect budget a first Unit starts with
MaxWrites == 2      \* the most write calls with a non-empty buffer

----------------------------------------------------------------------------
(* Values *)

IdempotentMethods == {"DELETE", "GET", "HEAD", "OPTIONS", "PUT", "TRACE"}

\* the methods a Unit is given here: the six above, two that are not
\* idempotent, and a lower-case spelling
Methods == IdempotentMethods \cup {"POST", "PATCH", "get"}

StartUrl == [host |-> "a", path |-> "/"]
NoUrl == [host |-> "", path |-> ""]

\* Url::to_string: the text of a URL, as its pieces
to_string(url) == <<"http://", url.host, url.path>>
NoUrlText == <<>>

Units == [method : Methods, url : {StartUrl}, redirects : 0..MaxRedirects,
          is_chunked : BOOLEAN]
NoUnit == [method |-> "", url |-> NoUrl, redirects |-> 0, is_chunked |-> FALSE]

\* Location headers: none, a relative reference, an absolute URL on another
\* host, and one Url::join rejects
Locations == {"none", "/new", "http://b/x", "http://[bad"}

NoResp == [status |-> 0, synthetic |-> "none", location |-> "none",
           stream |-> 0, url |-> NoUrlText, unit |-> NoUnit]

ParsedResp(st, syn, loc) ==
    [status |-> st, synthetic |-> syn, location |-> loc,
     stream |-> 0, url |-> NoUrlText, unit |-> NoUnit]

\* What Response::from_read can produce: a parsed response, or a response
\* made from the read error (a synthetic error, never a 3xx status)
Responses ==
    {ParsedResp(200, "none", "none")}
    \cup {ParsedResp(st, "none", loc) : st \in {301, 302, 303, 307, 308}, loc \in Locations}
    \cup {ParsedResp(500, syn, "none") : syn \in {"BadStatusRead", "Io"}}

\* impl From<Error> for Response: the error as a synthetic Response
IntoResponse(e) == ParsedResp(500, e, "none")

\* Response::synthetic_error
synthetic_error(r) == r.synthetic

\* Error::is_bad_status_read
is_bad_status_read(e) == e = "BadStatusRead"

\* Response::redirect: the status is in the redirect class
redirect(r) == r.status >= 300 /\ r.status <= 399

\* Url::join
JoinOk(url, location) == location \in {"/new", "http://b/x"}
Join(url, location) ==
    IF location = "/new" THEN [host |-> url.host, path |-> "/new"]
    ELSE [host |-> "b", path |-> "/x"]

\* Unit::redirect_to: a new Unit for the new URL, one redirect less
redirect_to(unit, new_url) ==
    [unit EXCEPT !.url = new_url, !.redirects = unit.redirects - 1]

\* connect_and_send_prelude: fails, or gives a stream and whether it is recycled
ConnectOutcomes == {[ok |-> FALSE, recycled |-> FALSE],
                    [ok |-> TRUE, recycled |-> FALSE],
                    [ok |-> TRUE, recycled |-> TRUE]}

NewStream(w) == [frames |-> <<>>, holder |-> "writer", widx |-> w, parses |-> 0]

\* an entry of the log: the call, the writer it is made for, why it is made
\* ("new", "retry", "redirect" for a connect; "finish", "drop", "retry",
\* "redirect" for an entry of do_finish) and what it gave (whether the
\* connection is recycled, the synthetic error of the response)
Event(ev, hop, why, arg) == [ev |-> ev, hop |-> hop, why |-> why, arg |-> arg]

Recycled(b) == IF b THEN "recycled" ELSE "fresh"

----------------------------------------------------------------------------
(* RequestWrite *)

\* no do_finish has returned yet
NoOutcome == [kind |-> "none", err |-> "", resp |-> NoResp]

\* RequestWrite::new, after a successful connect
NewWriter(unit, stream, recycled) ==
    [unit |-> unit, stream |-> stream, deadline |-> "unit.deadline",
     body_empty |-> TRUE,
     connection_is_recycled |-> recycled, finished |-> FALSE, dropped |-> FALSE]

\* is_retryable without the test of body_empty
is_retryable_AnyBody(w) ==
    w.unit.method \in {"DELETE", "GET", "HEAD", "OPTIONS", "PUT", "TRACE"}

\* RequestWrite::is_retryable
is_retryable(w) ==
    LET idempotent ==
            CASE w.unit.method = "DELETE"  -> TRUE
              [] w.unit.method = "GET"     -> TRUE
              [] w.unit.method = "HEAD"    -> TRUE
              [] w.unit.method = "OPTIONS" -> TRUE
              [] w.unit.method = "PUT"     -> TRUE
              [] w.unit.method = "TRACE"   -> TRUE
              [] OTHER                     -> FALSE
    IN idempotent /\ w.body_empty

Init ==
    /\ \E u \in Units, recycled \in BOOLEAN :
           /\ writers = <<NewWriter(u, 1, recycled)>>
           /\ log = <<Event("connect", 1, "new", Recycled(recycled))>>
    /\ streams = <<NewStream(1)>>
    /\ pc = "open"
    /\ cur = 1
    /\ via = "none"
    /\ resp = NoResp
    /\ outcome = NoOutcome
    /\ returned = NoResp
    /\ panicked = FALSE
    /\ last_io = "none"
    /\ written = 0

----------------------------------------------------------------------------
(* Helpers of the actions *)

SetWriter(i, w) == [writers EXCEPT ![i] = w]

\* a stream value is dropped: the connection is released
Release(ss, s) == IF s = 0 THEN ss ELSE [ss EXCEPT ![s].holder = "released"]

SendFrame(ss, s, f) == [ss EXCEPT ![s].frames = Append(@, f)]

Ok(r) == [kind |-> "ok", err |-> "", resp |-> r]
Err(e) == [kind |-> "err", err |-> e, resp |-> NoResp]
Panic == [kind |-> "panic", err |-> "", resp |-> NoResp]

----------------------------------------------------------------------------
(* impl Write for RequestWrite *)

\* body_empty cleared by every write, the empty one included
write_body_empty_AnyWrite(w, len) == FALSE

\* write without the assignment `self.body_empty = false`
write_body_empty_Kept(w, len) == w.body_empty

\* body_empty after write(buf), len the length of buf
write_body_empty(w, len) == IF len > 0 THEN FALSE ELSE w.body_empty

\* the frame write(buf) sends: one chunk if the Unit is chunked, the bytes
\* as they are otherwise, nothing for an empty buffer
write_frame(w, len) ==
    IF len > 0
    THEN IF w.unit.is_chunked THEN <<"data">> ELSE <<"raw">>
    ELSE <<>>

\* write(buf): io_ok is whether the stream accepts the bytes (an empty buffer
\* never reaches the stream)
Write(len, io_ok) ==
    /\ pc = "open"
    /\ len = 0 => io_ok
    /\ len > 0 => written < MaxWrites
    /\ LET w == writers[1]
           f == write_frame(w, len)
       IN /\ writers' = SetWriter(1, [w EXCEPT !.body_empty = write_body_empty(w, len)])
          /\ streams' = IF io_ok /\ f # <<>>
                        THEN SendFrame(streams, w.stream, f[1])
                        ELSE streams
          /\ last_io' = IF len = 0 THEN "Ok(0)"
                        ELSE IF io_ok THEN "Ok(n)" ELSE "Err"
    /\ written' = IF len > 0 THEN written + 1 ELSE written
    /\ UNCHANGED <<pc, cur, via, resp, outcome, returned, panicked, log>>

\* flush(): forwarded to the stream
Flush(io_ok) ==
    /\ pc = "open"
    /\ last_io' = IF io_ok THEN "Ok(())" ELSE "Err"
    /\ UNCHANGED <<writers, streams, pc, cur, via, resp, outcome, returned,
                   panicked, written, log>>

----------------------------------------------------------------------------
(* finish, drop *)

\* finish(mut self): enters do_finish
Finish ==
    /\ pc = "open"
    /\ pc' = "entry"
    /\ cur' = 1
    /\ via' = "finish"
    /\ log' = Append(log, Event("do_finish", 1, "finish", ""))
    /\ last_io' = "none"
    /\ UNCHANGED <<writers, streams, resp, outcome, returned, panicked, written>>

\* Drop::drop without the test of finished
DropRunsFinish_Always(w) == TRUE

\* Drop::drop: the test `!self.finished`
DropRunsFinish(w) == ~w.finished

\* the caller lets go of a writer it never finished
DropCall ==
    /\ pc = "open"
    /\ LET w == writers[1]
       IN IF DropRunsFinish(w)
          THEN /\ writers' = SetWriter(1, [w EXCEPT !.dropped = TRUE])
               /\ pc' = "entry"
               /\ log' = Append(log, Event("do_finish", 1, "drop", ""))
               /\ streams' = streams
          ELSE /\ writers' = SetWriter(1, [w EXCEPT !.dropped = TRUE])
               /\ pc' = "done"
               /\ log' = log
               /\ streams' = Release(streams, w.stream)
    /\ cur' = 1
    /\ via' = "drop"
    /\ last_io' = "none"
    /\ UNCHANGED <<resp, outcome, returned, panicked, written>>

----------------------------------------------------------------------------
(* do_finish *)

\* assert!(!self.finished)
EntryAssertion(w) == ~w.finished

\* lines 48-52: the assertion, finished = true, end_chunked
DoFinishEntry ==
    /\ pc = "entry"
    /\ LET w == writers[cur]
       IN IF ~EntryAssertion(w)
          THEN /\ outcome' = Panic
               /\ pc' = "unwind"
               /\ UNCHANGED <<writers, streams, log>>
          ELSE /\ writers' = SetWriter(cur, [w EXCEPT !.finished = TRUE])
               /\ IF w.unit.is_chunked
                  THEN \E io_ok \in BOOLEAN :
                         IF io_ok
                         THEN /\ streams' = SendFrame(streams, w.stream, "term")
                              /\ log' = Append(log, Event("end_chunked", cur, "", "ok"))
                              /\ pc' = "read"
                              /\ outcome' = outcome
                         ELSE /\ streams' = streams
                              /\ log' = Append(log, Event("end_chunked", cur, "", "err"))
                              /\ pc' = "unwind"
                              /\ outcome' = Err("Io")
                  ELSE /\ pc' = "read"
                       /\ UNCHANGED <<streams, log, outcome>>
    /\ UNCHANGED <<cur, via, resp, returned, panicked, last_io, written>>

\* line 54: Response::from_read(&mut self.stream)
FromRead ==
    /\ pc = "read"
    /\ \E r \in Responses :
         /\ resp' = r
         /\ log' = Append(log, Event("from_read", cur, "", r.synthetic))
    /\ streams' = [streams EXCEPT ![writers[cur].stream].parses = @ + 1]
    /\ pc' = "retry"
    /\ UNCHANGED <<writers, cur, via, outcome, returned, panicked, last_io,
                   written>>

\* the condition of the retry without the test of connection_is_recycled
RetryCondition_AnyConnection(w, r) ==
    /\ synthetic_error(r) # "none"
    /\ is_bad_status_read(synthetic_error(r))
    /\ is_retryable(w)

\* lines 69-70: the condition of the retry
RetryCondition(w, r) ==
    /\ synthetic_error(r) # "none"
    /\ is_bad_status_read(synthetic_error(r))
    /\ is_retryable(w)
    /\ w.connection_is_recycled

\* do_finish going on to the redirects without saving the cookies
AfterRetryDecision_SkipCookies == "redirect"

\* where do_finish goes on when it does not retry (line 78)
AfterRetryDecision == "cookies"

\* lines 69-76: reconnect and run do_finish again, or go on
RetryDecision ==
    /\ pc = "retry"
    /\ LET w == writers[cur]
       IN IF RetryCondition(w, resp)
          THEN \E c \in ConnectOutcomes :
                 IF c.ok
                 THEN /\ streams' = Append(Release(streams, w.stream), NewStream(cur))
                      /\ writers' = SetWriter(cur,
                             [w EXCEPT !.stream = Len(streams) + 1,
                                       !.connection_is_recycled = c.recycled])
                      /\ log' = log \o <<Event("connect", cur, "retry", Recycled(c.recycled)),
                                         Event("do_finish", cur, "retry", "")>>
                      /\ pc' = "entry"
                      /\ outcome' = outcome
                 ELSE /\ log' = Append(log, Event("connect_failed", cur, "retry", ""))
                      /\ pc' = "unwind"
                      /\ outcome' = Err("ConnectionFailed")
                      /\ UNCHANGED <<streams, writers>>
          ELSE /\ pc' = AfterRetryDecision
               /\ UNCHANGED <<streams, writers, log, outcome>>
    /\ UNCHANGED <<cur, via, resp, returned, panicked, last_io, written>>

\* line 78: unit::save_cookies(&self.unit, &resp)
SaveCookies ==
    /\ pc = "cookies"
    /\ log' = Append(log, Event("save_cookies", cur, "", resp.synthetic))
    /\ pc' = "redirect"
    /\ UNCHANGED <<writers, streams, cur, via, resp, outcome, returned,
                   panicked, last_io, written>>

\* every redirect-class status followed
Followed_AnyRedirect(status) == status >= 300 /\ status <= 399

\* the statuses the match of line 97 follows
Followed(status) == status \in {301, 302, 303}

\* the redirects without the test `redirects == 1`
RedirectOutcome_NoBudgetCheck(w, r) ==
    IF redirect(r) /\ w.unit.redirects > 0
    THEN IF r.location = "none" THEN "handoff"
         ELSE IF ~JoinOk(w.unit.url, r.location) THEN "BadUrl"
         ELSE IF r.status \in {301, 302, 303} THEN "follow"
         ELSE "handoff"
    ELSE "handoff"

\* the redirects with the test `redirects == 1` after the Location header,
\* the join and the match of the status
RedirectOutcome_LocationFirst(w, r) ==
    IF redirect(r) /\ w.unit.redirects > 0
    THEN IF r.location = "none" THEN "handoff"
         ELSE IF ~JoinOk(w.unit.url, r.location) THEN "BadUrl"
         ELSE IF ~(r.status \in {301, 302, 303}) THEN "handoff"
         ELSE IF w.unit.redirects = 1 THEN "TooManyRedirects"
         ELSE "follow"
    ELSE "handoff"

\* the redirects without the test `redirects > 0`
RedirectOutcome_BudgetNotTested(w, r) ==
    IF redirect(r)
    THEN IF w.unit.redirects = 1 THEN "TooManyRedirects"
         ELSE IF r.location = "none" THEN "handoff"
         ELSE IF ~JoinOk(w.unit.url, r.location) THEN "BadUrl"
         ELSE IF r.status \in {301, 302, 303} THEN "follow"
         ELSE "handoff"
    ELSE "handoff"

\* lines 81-109: what do_finish does with the response once cookies are saved
RedirectOutcome(w, r) ==
    IF redirect(r) /\ w.unit.redirects > 0
    THEN IF w.unit.redirects = 1 THEN "TooManyRedirects"
         ELSE IF r.location = "none" THEN "handoff"
         ELSE IF ~JoinOk(w.unit.url, r.location) THEN "BadUrl"
         ELSE IF Followed(r.status) THEN "follow"
         ELSE "handoff"
    ELSE "handoff"

RedirectDecision ==
    /\ pc = "redirect"
    /\ LET w == writers[cur]
           d == RedirectOutcome(w, resp)
           n == Len(writers) + 1
       IN CASE d = "TooManyRedirects" ->
                 /\ outcome' = Err("TooManyRedirects")
                 /\ pc' = "unwind"
                 /\ UNCHANGED <<writers, streams, cur, resp, log>>
            [] d = "BadUrl" ->
                 /\ outcome' = Err("BadUrl")
                 /\ pc' = "unwind"
                 /\ UNCHANGED <<writers, streams, cur, resp, log>>
            [] d = "follow" ->
                 \E c \in ConnectOutcomes :
                    IF c.ok
                    THEN /\ streams' = Append(streams, NewStream(n))
                         /\ writers' = Append(writers,
                               NewWriter(redirect_to(w.unit, Join(w.unit.url, resp.location)),
                                         Len(streams) + 1, c.recycled))
                         /\ cur' = n
                         /\ resp' = NoResp
                         /\ log' = log \o <<Event("connect", n, "redirect", Recycled(c.recycled)),
                                            Event("do_finish", n, "redirect", "")>>
                         /\ pc' = "entry"
                         /\ outcome' = outcome
                    ELSE /\ log' = Append(log, Event("connect_failed", n, "redirect", ""))
                         /\ outcome' = Err("ConnectionFailed")
                         /\ pc' = "unwind"
                         /\ UNCHANGED <<writers, streams, cur, resp>>
            [] OTHER ->
                 /\ pc' = "handoff"
                 /\ UNCHANGED <<writers, streams, cur, resp, log, outcome>>
    /\ UNCHANGED <<via, returned, panicked, last_io, written>>

\* a hand-off that leaves the stream in the writer as well
Placeholder_StreamKept(w) == [stream |-> w.stream, deadline |-> w.deadline]

\* line 115: DeadlineStream::new(Stream::Empty, None), what mem::replace
\* leaves in the writer (stream 0 is Stream::Empty)
Placeholder(w) == [stream |-> 0, deadline |-> "None"]

\* a response given the stream, the URL and the Unit of the first writer
set_stream_FirstHop(r, w) ==
    [r EXCEPT !.stream = writers[1].stream, !.url = to_string(writers[1].unit.url),
              !.unit = writers[1].unit]

\* lines 113-117: resp.set_stream(stream, self.unit.url.to_string(), &self.unit)
set_stream(r, w) ==
    [r EXCEPT !.stream = w.stream, !.url = to_string(w.unit.url), !.unit = w.unit]

\* lines 111-118: set_stream moves the stream into the response
HandOff ==
    /\ pc = "handoff"
    /\ LET w == writers[cur]
           r == set_stream(resp, w)
       IN /\ resp' = r
          /\ outcome' = Ok(r)
          /\ streams' = [streams EXCEPT ![w.stream].holder = "response"]
          /\ writers' = SetWriter(cur, [w EXCEPT !.stream = Placeholder(w).stream,
                                                 !.deadline = Placeholder(w).deadline])
    /\ log' = Append(log, Event("set_stream", cur, "", resp.synthetic))
    /\ pc' = "unwind"
    /\ UNCHANGED <<cur, via, returned, panicked, last_io, written>>

----------------------------------------------------------------------------
(* Returning from do_finish *)

\* line 102: the writer of the redirect is a temporary, dropped once its
\* do_finish has returned; the result is the result of the outer do_finish
DropTemp ==
    /\ pc = "unwind"
    /\ cur > 1
    /\ LET w == writers[cur]
       IN IF ~w.dropped /\ DropRunsFinish(w)
          THEN /\ writers' = SetWriter(cur, [w EXCEPT !.dropped = TRUE])
               /\ pc' = "entry"
               /\ log' = Append(log, Event("do_finish", cur, "drop", ""))
               /\ UNCHANGED <<streams, cur>>
          ELSE /\ writers' = SetWriter(cur, [w EXCEPT !.dropped = TRUE])
               /\ streams' = Release(streams, w.stream)
               /\ cur' = cur - 1
               /\ UNCHANGED <<pc, log>>
    /\ UNCHANGED <<via, resp, outcome, returned, panicked, last_io, written>>

\* line 121: unwrap_or_else(|e| e.into()), then self is dropped
FinishReturn ==
    /\ pc = "unwind"
    /\ cur = 1
    /\ ~writers[1].dropped
    /\ returned' = CASE outcome.kind = "ok" -> outcome.resp
                     [] outcome.kind = "err" -> IntoResponse(outcome.err)
                     [] OTHER -> NoResp
    /\ panicked' = (outcome.kind = "panic")
    /\ LET w == writers[1]
       IN IF DropRunsFinish(w)
          THEN /\ writers' = SetWriter(1, [w EXCEPT !.dropped = TRUE])
               /\ pc' = "entry"
               /\ log' = Append(log, Event("do_finish", 1, "drop", ""))
               /\ streams' = streams
          ELSE /\ writers' = SetWriter(1, [w EXCEPT !.dropped = TRUE])
               /\ pc' = "done"
               /\ log' = log
               /\ streams' = Release(streams, w.stream)
    /\ UNCHANGED <<cur, via, resp, outcome, last_io, written>>

\* line 148: `let _ = self.do_finish()`: the result is dropped, and with it
\* the stream a Response holds; then the fields of the writer are dropped
DropReturn ==
    /\ pc = "unwind"
    /\ cur = 1
    /\ writers[1].dropped
    /\ panicked' = (panicked \/ outcome.kind = "panic")
    /\ streams' = Release(Release(streams, outcome.resp.stream), writers[1].stream)
    /\ pc' = "done"
    /\ UNCHANGED <<writers, cur, via, resp, outcome, returned, last_io, written,
                   log>>

----------------------------------------------------------------------------

Next ==
    \/ \E len \in 0..1, io_ok \in BOOLEAN : Write(len, io_ok)
    \/ \E io_ok \in BOOLEAN : Flush(io_ok)
    \/ Finish
    \/ DropCall
    \/ DoFinishEntry
    \/ FromRead
    \/ RetryDecision
    \/ SaveCookies
    \/ RedirectDecision
    \/ HandOff
    \/ DropTemp
    \/ FinishReturn
    \/ DropReturn

Spec == Init /\ [][Next]_vars

----------------------------------------------------------------------------
(* The log *)

Indexes(ev, hop) == {j \in DOMAIN log : log[j].ev = ev /\ log[j].hop = hop}

\* the calls of connect_and_send_prelude a retry made
RetryConnects == {j \in DOMAIN log : log[j].ev \in {"connect", "connect_failed"}
                                     /\ log[j].why = "retry"}

Max(S) == CHOOSE x \in S : \A y \in S : y <= x

\* the last response read
LastRead == Max({j \in DOMAIN log : log[j].ev = "from_read"})
HasRead == \E j \in DOMAIN log : log[j].ev = "from_read"

\* the connect that gave writer `hop` the stream it had at entry j of the log
ConnectBefore(hop, j) == Max({k \in 1..(j - 1) : log[k].ev = "connect" /\ log[k].hop = hop})

----------------------------------------------------------------------------
(* Claims *)

\* C1: finish() always returns a Response to its caller and never panics,
\* whatever do_finish does; a hard error of do_finish comes back as a
\* Response carrying that error as its synthetic error.
C1_FinishAlwaysReturnsResponse ==
    (via = "finish" /\ pc = "done") =>
        /\ ~panicked
        /\ returned # NoResp
        /\ outcome.kind = "err" => returned.synthetic = outcome.err

\* C2: after a retry has obtained its new connection, do_finish runs again on
\* the new stream: a response is read from it, and finish() returns the
\* result of that second run.
C2_RetryRunsFinishAgain ==
    (via = "finish" /\ pc = "done") =>
        \A j \in RetryConnects :
            log[j].ev = "connect" =>
                /\ \E k \in Indexes("from_read", log[j].hop) : k > j
                /\ returned # NoResp

\* C3: a retry connects only for a bad-status-line response, an idempotent
\* method, no non-empty write and a recycled connection; a bad-status-line
\* response that is not retried is given to the cookie sink and returned by
\* finish() with the stream handed off.
C3_NoRetryUnlessAllThree ==
    /\ \A j \in RetryConnects :
          /\ j > 1
          /\ log[j - 1] = Event("from_read", log[j].hop, "", "BadStatusRead")
          /\ writers[log[j].hop].unit.method \in
                 {"DELETE", "GET", "HEAD", "OPTIONS", "PUT", "TRACE"}
          /\ log[j].hop = 1 => written = 0
          /\ log[ConnectBefore(log[j].hop, j)].arg = "recycled"
    /\ (/\ pc = "done"
        /\ via = "finish"
        /\ HasRead
        /\ log[LastRead].arg = "BadStatusRead"
        /\ \A j \in RetryConnects : j < LastRead)
       => /\ returned.synthetic = "BadStatusRead"
          /\ returned.stream # 0
          /\ streams[returned.stream].holder = "response"
          /\ \E k \in Indexes("save_cookies", log[LastRead].hop) :
                k > LastRead /\ log[k].arg = "BadStatusRead"

\* a bad-status-line response on a connection that is not recycled came back
\* from finish() with its stream
C3_Witness ==
    /\ pc = "done"
    /\ via = "finish"
    /\ returned.synthetic = "BadStatusRead"
    /\ returned.stream # 0
    /\ writers[1].unit.method = "GET"
    /\ written = 0
    /\ log[1].arg = "fresh"

\* C4: do_finish is only entered while finished is false: the assertion at
\* its entry holds on every entry, the one of the retry included.
C4_EnteredOnlyUnfinished ==
    pc = "entry" => ~writers[cur].finished

\* the entries of do_finish on writer `hop` made by `why`
Entries(hop, why) == {j \in Indexes("do_finish", hop) : log[j].why = why}

CountOf(seq, x) == Cardinality({k \in DOMAIN seq : seq[k] = x})

C6_RedirectBudget ==
    /\ \A i \in 1..(Len(writers) - 1) :
          /\ writers[i].unit.redirects >= 2
          /\ writers[i + 1].unit.redirects = writers[i].unit.redirects - 1
    /\ writers[1].unit.redirects >= 1 =>
          Len(writers) - 1 <= writers[1].unit.redirects - 1
    /\ (/\ pc \in {"unwind", "handoff", "entry"}
        /\ log[Len(log)].ev \in {"save_cookies", "connect_failed", "do_finish"}
        /\ log[Len(log)].hop >= cur
        /\ cur = Len(writers)
        /\ resp.status >= 300 /\ resp.status <= 399
        /\ writers[cur].unit.redirects = 1)
       => /\ pc = "unwind"
          /\ outcome = Err("TooManyRedirects")
          /\ log[Len(log)] = Event("save_cookies", cur, "", "none")
    /\ outcome.err = "TooManyRedirects" =>
          writers[Len(writers)].unit.redirects = 1

\* budget 2: one redirect followed, then TooManyRedirects on the second hop
C6_Witness ==
    /\ pc = "done"
    /\ writers[1].unit.redirects = 2
    /\ Len(writers) = 2
    /\ writers[2].unit.redirects = 1
    /\ outcome = Err("TooManyRedirects")

\* the redirect decision is taken on a redirect-class response with a budget
\* of at least 2 and a Location that resolves
C7_Case ==
    /\ pc = "redirect"
    /\ resp.status >= 300 /\ resp.status <= 399
    /\ writers[cur].unit.redirects >= 2
    /\ resp.location \in {"/new", "http://b/x"}

\* one connect gave one new writer for a new Unit of the resolved URL, and
\* its do_finish is entered
C7_NewWriter ==
    /\ Len(writers') = Len(writers) + 1
    /\ writers'[Len(writers')].unit.url =
          (IF resp.location = "/new"
           THEN [host |-> writers[cur].unit.url.host, path |-> "/new"]
           ELSE [host |-> "b", path |-> "/x"])
    /\ Len(log') = Len(log) + 2
    /\ log'[Len(log) + 1].ev = "connect"
    /\ log'[Len(log) + 1].hop = Len(writers')
    /\ log'[Len(log) + 2] = Event("do_finish", Len(writers'), "redirect", "")
    /\ pc' = "entry"
    /\ cur' = Len(writers')

\* the one connect failed: no writer is made and the attempt fails
C7_ConnectFailed ==
    /\ writers' = writers
    /\ log' = Append(log, Event("connect_failed", Len(writers) + 1, "redirect", ""))
    /\ outcome' = Err("ConnectionFailed")
    /\ pc' = "unwind"

\* no second request: the response goes to the hand-off
C7_NotFollowed ==
    /\ pc' = "handoff"
    /\ writers' = writers
    /\ streams' = streams
    /\ log' = log
    /\ resp' = resp

\* C7 (the redirect decision): 301, 302 and 303 make exactly one connect for
\* a new Unit of the resolved URL, which gives one new writer (or, the connect
\* failing, the attempt's error); any other redirect-class status makes none.
C7_Decision ==
    C7_Case => IF resp.status \in {301, 302, 303}
               THEN C7_NewWriter \/ C7_ConnectFailed
               ELSE C7_NotFollowed

\* C7 (the hand-off): the response is returned as it was read, with the
\* current stream, and no connect is made.
C7_HandOff ==
    pc = "handoff" =>
        /\ outcome'.kind = "ok"
        /\ outcome'.resp.status = resp.status
        /\ outcome'.resp.synthetic = resp.synthetic
        /\ outcome'.resp.location = resp.location
        /\ outcome'.resp.stream = writers[cur].stream
        /\ streams'[writers[cur].stream].holder = "response"
        /\ Len(writers') = Len(writers)
        /\ log' = Append(log, Event("set_stream", cur, "", resp.synthetic))

\* C7 (the result): the result of the new writer's do_finish is the result
\* of the do_finish that followed the redirect, and of finish().
C7_Result ==
    /\ (pc = "unwind" /\ cur > 1) => outcome' = outcome
    /\ (pc = "unwind" /\ cur = 1 /\ via = "finish" /\ outcome.kind = "ok"
        /\ ~writers[1].dropped) => returned' = outcome.resp

\* C7: with a budget of at least 2 and a Location that resolves, 301, 302 and
\* 303 cause exactly one new request (one connect, one new writer) for a new
\* Unit of the resolved URL, whose result is this attempt's result; 307 and
\* 308 are returned unmodified with the current stream, and no second request
\* is made.
C7_OnlyFollowed301To303 == [][C7_Decision /\ C7_HandOff /\ C7_Result]_vars

\* a 30x to another host was followed and finish() returned the response of
\* the second writer
C7_Witness ==
    /\ pc = "done"
    /\ via = "finish"
    /\ Len(writers) = 2
    /\ writers[2].unit.url = [host |-> "b", path |-> "/x"]
    /\ returned.url = <<"http://", "b", "/x">>
    /\ returned.stream # 0
    /\ returned.unit = writers[2].unit

\* C8: every connect made for the next hop of a redirect comes after
\* save_cookies was called for the redirecting response of the hop before.
C8_CookiesBeforeNextHop ==
    \A j \in DOMAIN log :
        (log[j].ev \in {"connect", "connect_failed"} /\ log[j].why = "redirect") =>
            \E k \in Indexes("save_cookies", log[j].hop - 1) :
                /\ k < j
                /\ log[k].arg = "none"
                /\ \E r \in Indexes("from_read", log[j].hop - 1) : r < k

\* a redirect was followed
C8_Witness ==
    \E j \in DOMAIN log : log[j] = Event("connect", 2, "redirect", "fresh")

\* C9: is_retryable is true exactly for the six idempotent methods with
\* body_empty true; it is false once a non-empty write has occurred and false
\* for POST, PATCH and a lower-case method name.
C9_IsRetryable ==
    \A i \in DOMAIN writers :
        LET w == writers[i]
        IN /\ is_retryable(w) <=>
                 (/\ w.unit.method \in {"DELETE", "GET", "HEAD", "OPTIONS", "PUT", "TRACE"}
                  /\ w.body_empty)
           /\ (i = 1 /\ written > 0) => ~is_retryable(w)
           /\ w.unit.method \in {"POST", "PATCH", "get"} => ~is_retryable(w)

\* a GET is not retryable after a non-empty write
C9_Witness ==
    /\ writers[1].unit.method = "GET"
    /\ written > 0
    /\ ~is_retryable(writers[1])

\* C10 (state): body_empty is true exactly when no non-empty write has
\* occurred on the writer.
C10_BodyEmptyIffNoWrite ==
    /\ writers[1].body_empty <=> written = 0
    /\ \A i \in DOMAIN writers : i > 1 => writers[i].body_empty

\* C10 (steps): a write returning 0 for an empty buffer sends nothing and
\* changes no writer; body_empty, once false, stays false.
C10_Step ==
    /\ last_io' = "Ok(0)" =>
          /\ streams' = streams
          /\ writers' = writers
          /\ written' = written
    /\ ~writers[1].body_empty => ~writers'[1].body_empty

\* C10: body_empty is true if and only if no write call with a non-empty
\* buffer has occurred; an empty write is a no-op returning 0; nothing sets
\* body_empty back to true.
C10_BodyEmpty == [](C10_BodyEmptyIffNoWrite) /\ [][C10_Step]_vars

\* an empty write has returned 0 and body_empty is still true
C10_Witness ==
    /\ last_io = "Ok(0)"
    /\ writers[1].body_empty
    /\ streams[1].frames = <<>>

\* C11: every live stream has one owner: a writer that is not finished holds
\* a live stream of its own; a stream handed off is held by the Response
\* alone, with the URL and a copy of the Unit, and the writer is left with
\* Stream::Empty and no deadline; nothing is read from or written to a stream
\* by a writer once it is handed off, the drop of the writer included.
C11_OneOwner ==
    /\ \A i \in DOMAIN writers :
          LET w == writers[i]
          IN /\ ~w.finished =>
                   /\ w.stream # 0
                   /\ w.deadline = "unit.deadline"
                   /\ streams[w.stream].holder = "writer"
             /\ w.stream # 0 =>
                   /\ streams[w.stream].widx = i
                   /\ \/ streams[w.stream].holder = "writer"
                      \/ /\ streams[w.stream].holder = "released"
                         /\ w.dropped
                         /\ w.finished
                   /\ outcome.resp.stream # w.stream
                   /\ returned.stream # w.stream
                   /\ \A k \in DOMAIN writers : writers[k].stream = w.stream => k = i
    /\ \A s \in DOMAIN streams :
          /\ streams[s].holder = "writer" => writers[streams[s].widx].stream = s
          /\ streams[s].holder = "response" =>
                /\ outcome.resp.stream = s
                /\ streams[s].parses = 1
                /\ \A i \in DOMAIN writers : writers[i].stream # s
    /\ outcome.kind = "ok" =>
          LET w == writers[Len(writers)]
          IN /\ w.stream = 0
             /\ w.deadline = "None"
             /\ outcome.resp.stream # 0
             /\ streams[outcome.resp.stream].widx = Len(writers)
             /\ outcome.resp.url = <<"http://", w.unit.url.host, w.unit.url.path>>
             /\ outcome.resp.unit = w.unit
             /\ log[Len(log)] = Event("set_stream", Len(writers), "", outcome.resp.synthetic)

\* finish() has returned a Response that holds the stream, and the writer,
\* now dropped, holds Stream::Empty
C11_Witness ==
    /\ pc = "done"
    /\ via = "finish"
    /\ returned.stream = 1
    /\ streams[1].holder = "response"
    /\ writers[1].stream = 0
    /\ writers[1].dropped

\* the provider reported every connection it made for a retry as not recycled
HonestProvider ==
    \A j \in DOMAIN log :
        (log[j].ev = "connect" /\ log[j].why = "retry") => log[j].arg = "fresh"

\* C12: with a provider that reports fresh connections as not recycled,
\* finish() returns (it does not end in a panic) and no writer reconnects for
\* a retry more than once.
C12_FinishReturnsAfterOneRetry ==
    HonestProvider =>
        /\ (pc = "done" /\ via = "finish") => (~panicked /\ returned.status # 0)
        /\ \A j, k \in RetryConnects : log[j].hop = log[k].hop => j = k

\* the invocations of do_finish nested on the call path: none returns before
\* the innermost has, so all the entries made so far
Depth == Cardinality({j \in DOMAIN log : log[j].ev = "do_finish"})

Reads == {j \in DOMAIN log : log[j].ev = "from_read"}

\* the call that follows the read at entry j is save_cookies for that response
C14_Handed(j) ==
    /\ j < Len(log)
    /\ log[j + 1] = Event("save_cookies", log[j].hop, "", log[j].arg)

\* the call that follows the read at entry j is the connect of a retry
C14_Retried(j) ==
    /\ j < Len(log)
    /\ log[j + 1].ev \in {"connect", "connect_failed"}
    /\ log[j + 1].why = "retry"
    /\ log[j + 1].hop = log[j].hop

\* the redirect decision and all that follows it come after save_cookies
C14_BeforeRedirects ==
    /\ pc \in {"redirect", "handoff"} =>
          log[Len(log)] = Event("save_cookies", cur, "", resp.synthetic)
    /\ \A j \in Reads : j = Len(log) => pc \in {"retry", "cookies"}

\* C14 as claimed: every response read by do_finish is given to save_cookies,
\* whatever its status, its synthetic error and the retry, before the
\* redirect decision.
C14_EveryResponseToCookieSink ==
    /\ \A j \in Reads : j < Len(log) => C14_Handed(j)
    /\ C14_BeforeRedirects

\* C14 as amended: every response read by do_finish, except the
\* bad-status-line response that makes do_finish reconnect for a retry, is
\* given to save_cookies before the redirect decision.
C14_ResponseToCookieSinkUnlessRetried ==
    /\ \A j \in Reads :
          /\ j < Len(log) => (C14_Handed(j) \/ C14_Retried(j))
          /\ C14_Retried(j) => log[j].arg = "BadStatusRead"
    /\ C14_BeforeRedirects

\* a response made from an I/O error was given to save_cookies and do_finish
\* is at the redirect decision
C14_Witness ==
    /\ pc = "redirect"
    /\ resp.synthetic = "Io"
    /\ log[Len(log)] = Event("save_cookies", 1, "", "Io")
    /\ log[Len(log) - 1] = Event("from_read", 1, "", "Io")

\* the step of do_finish that decides on the redirects, taken with a
\* redirect-class response and a budget of exactly 1
C15_Case ==
    /\ pc = "redirect"
    /\ redirect(resp)
    /\ writers[cur].unit.redirects = 1

C15_Step ==
    C15_Case =>
        /\ outcome' = Err("TooManyRedirects")
        /\ pc' = "unwind"
        /\ cur' = cur
        /\ writers' = writers
        /\ streams' = streams
        /\ streams[writers[cur].stream].holder = "writer"
        /\ log' = log
        /\ log[Len(log)] = Event("save_cookies", cur, "", resp.synthetic)

\* C15: a redirect-class response received with a budget of exactly 1 ends
\* do_finish with TooManyRedirects, whatever its Location header and its
\* status (307 and 308 included); no connect is made, the stream stays with
\* the writer, and save_cookies was the last call before.
C15_BudgetOneFirst == [][C15_Step]_vars

\* TooManyRedirects for a 307 without a Location header, budget 1
C15_Witness ==
    /\ pc = "unwind"
    /\ outcome = Err("TooManyRedirects")
    /\ resp.status = 307
    /\ resp.location = "none"
    /\ writers[cur].unit.redirects = 1
    /\ streams[writers[cur].stream].holder = "writer"
    /\ log[Len(log)].ev = "save_cookies"

\* the decision on the redirects, taken with a redirect-class response and
\* a budget of 0, or a budget of at least 2 and no Location header
C16_Case ==
    /\ pc = "redirect"
    /\ redirect(resp)
    /\ \/ writers[cur].unit.redirects = 0
       \/ writers[cur].unit.redirects >= 2 /\ resp.location = "none"

\* the hand-off of such a response
C16_HandOffCase ==
    /\ pc = "handoff"
    /\ redirect(resp)
    /\ \/ writers[cur].unit.redirects = 0
       \/ writers[cur].unit.redirects >= 2 /\ resp.location = "none"

C16_Step ==
    /\ C16_Case =>
          /\ pc' = "handoff"
          /\ UNCHANGED <<writers, streams, cur, resp, outcome, log>>
    /\ C16_HandOffCase =>
          /\ outcome'.kind = "ok"
          /\ outcome'.resp.status = resp.status
          /\ outcome'.resp.location = resp.location
          /\ outcome'.resp.synthetic = resp.synthetic
          /\ outcome'.resp.stream = writers[cur].stream
          /\ streams'[writers[cur].stream].holder = "response"
          /\ Len(streams') = Len(streams)
          /\ Len(writers') = Len(writers)
          /\ log' = Append(log, Event("set_stream", cur, "", resp.synthetic))

\* C16: a redirect-class response with a budget of 0, or with a budget of at
\* least 2 and no Location header, is not followed and is no error: no
\* connect, no TooManyRedirects, and the same response is the result of
\* do_finish, holding the stream of the writer.
C16_NoRedirectNoError == [][C16_Step]_vars

\* a 301 with a Location header handed off because the budget is 0
C16_Witness ==
    /\ pc = "unwind"
    /\ outcome.kind = "ok"
    /\ outcome.resp.status = 301
    /\ outcome.resp.location = "/new"
    /\ writers[cur].unit.redirects = 0
    /\ Len(writers) = 1
    /\ streams[outcome.resp.stream].holder = "response"

\* writer i has been destroyed: the temporaries above cur, and everything
\* once the call is over
C17_Destroyed(i) == i > cur \/ pc = "done"

\* C17: when do_finish ends with an error (Io from end_chunked,
\* ConnectionFailed from the connect of a retry or a redirect,
\* TooManyRedirects, BadUrl) no Response holds a stream; every writer is
\* finished and still names its own stream, which the writer holds until it
\* is destroyed and which is released then; drop does not enter do_finish
\* again.
C17_HardErrorKeepsStream ==
    outcome.kind = "err" =>
        /\ outcome.err \in {"Io", "ConnectionFailed", "TooManyRedirects", "BadUrl"}
        /\ pc \in {"unwind", "done"}
        /\ \A s \in DOMAIN streams : streams[s].holder # "response"
        /\ \A i \in DOMAIN writers :
              /\ writers[i].finished
              /\ writers[i].stream # 0
              /\ writers[i].deadline = "unit.deadline"
              /\ streams[writers[i].stream].widx = i
              /\ streams[writers[i].stream].holder =
                     (IF C17_Destroyed(i) THEN "released" ELSE "writer")
              /\ \A k \in DOMAIN writers : writers[k].stream = writers[i].stream => k = i
              /\ Cardinality(Entries(i, "drop")) = (IF via = "drop" /\ i = 1 THEN 1 ELSE 0)
        /\ Cardinality({j \in DOMAIN log : log[j].ev = "do_finish"}) = Len(writers)
        /\ (pc = "done" /\ via = "finish") =>
               (~panicked /\ returned = IntoResponse(outcome.err))

\* finish() is over with TooManyRedirects from the second hop: both streams
\* released
C17_Witness ==
    /\ pc = "done"
    /\ via = "finish"
    /\ outcome = Err("TooManyRedirects")
    /\ Len(writers) = 2
    /\ streams[writers[1].stream].holder = "released"
    /\ streams[writers[2].stream].holder = "released"
    /\ writers[1].stream # writers[2].stream

\* the frames of stream s are data frames, then at most one terminating frame
C18_DataThenTerm(s) ==
    LET f == streams[s].frames
    IN \A k \in DOMAIN f :
          /\ f[k] \in {"data", "term"}
          /\ f[k] = "term" => k = Len(f)

\* the framing of every stream: a chunked writer sends data frames and then
\* one terminating frame, which is there when a response is read; another
\* writer sends neither; nothing is read twice from a stream
C18_Frames ==
    \A s \in DOMAIN streams :
        LET f == streams[s].frames
            w == writers[streams[s].widx]
        IN /\ streams[s].parses <= 1
           /\ IF w.unit.is_chunked
              THEN /\ C18_DataThenTerm(s)
                   /\ streams[s].parses = 1 => CountOf(f, "term") = 1
                   /\ Len(f) <= written + 1
              ELSE /\ \A k \in DOMAIN f : f[k] = "raw"
                   /\ Len(f) <= written

\* a write of a non-empty buffer the stream accepts, on a chunked writer,
\* appends one data frame to the stream of the writer
C18_WriteStep ==
    (/\ pc = "open"
     /\ written' = written + 1
     /\ last_io' = "Ok(n)"
     /\ writers[1].unit.is_chunked) =>
        streams' = SendFrame(streams, writers[1].stream, "data")

\* once a do_finish that reconnected for a retry on a chunked writer is over,
\* end_chunked has been called on the new stream
C18_RetryTerminatesAgain ==
    \A j \in RetryConnects :
        (/\ log[j].ev = "connect"
         /\ writers[log[j].hop].unit.is_chunked
         /\ pc \in {"unwind", "done"}) =>
            \E k \in DOMAIN log :
                k > j /\ log[k].ev = "end_chunked" /\ log[k].hop = log[j].hop

\* C18: on a chunked writer each non-empty write sends one data frame and
\* do_finish sends the terminating frame after all of them and before the
\* response is read; a stream a response is read from got exactly one
\* terminating frame, the new stream of a retry included; no data frame
\* follows the terminating frame; a writer that is not chunked sends no
\* terminating frame.
C18_ChunkFraming ==
    /\ [](C18_Frames /\ C18_RetryTerminatesAgain)
    /\ [][C18_WriteStep]_vars

\* some write of a non-empty buffer failed: the first stream got fewer frames
\* from write than there were such writes
C19_FailedWrite ==
    CountOf(streams[1].frames, "data") + CountOf(streams[1].frames, "raw") < written

\* a write of a non-empty buffer that the stream refuses returns the error,
\* has cleared body_empty and leaves finished false; so does every write or
\* flush that returns an error
C19_Step ==
    /\ (pc = "open" /\ written' = written + 1 /\ streams' = streams) =>
          /\ last_io' = "Err"
          /\ ~writers'[1].body_empty
    /\ (pc = "open" /\ last_io' = "Err") =>
          /\ pc' = "open"
          /\ ~writers'[1].finished
          /\ ~writers'[1].dropped
          /\ writers'[1].stream = writers[1].stream
          /\ streams' = streams
          /\ log' = log

\* after a failed write of a non-empty buffer the writer is not retryable
\* and no retry is made for it
C19_NeverRetryable ==
    C19_FailedWrite =>
        /\ ~writers[1].body_empty
        /\ ~is_retryable(writers[1])
        /\ \A j \in RetryConnects : log[j].hop # 1
        /\ pc = "open" => ~writers[1].finished

\* C19: a write or flush that fails returns its error and leaves finished
\* false, so do_finish still runs on finish() or on drop; a failed write of a
\* non-empty buffer has cleared body_empty, and the request is never
\* retryable afterwards.
C19_FailedWriteNotRetryable == [](C19_NeverRetryable) /\ [][C19_Step]_vars

\* after a failed write, a GET on a recycled connection got a bad status
\* line and do_finish went on to save_cookies without a retry
C19_Witness ==
    /\ C19_FailedWrite
    /\ written = 1
    /\ pc = "cookies"
    /\ via = "finish"
    /\ resp.synthetic = "BadStatusRead"
    /\ writers[1].unit.method = "GET"
    /\ writers[1].connection_is_recycled

\* the hops: each writer after the first has the Unit redirect_to made from
\* the one before, and the earlier writers keep their streams until they are
\* destroyed
C20_Hops ==
    \A i \in DOMAIN writers :
        /\ i > 1 =>
              /\ writers[i].unit.method = writers[i - 1].unit.method
              /\ writers[i].unit.redirects = writers[i - 1].unit.redirects - 1
              /\ writers[i].unit.url \in
                     {Join(writers[i - 1].unit.url, l) : l \in {"/new", "http://b/x"}}
        /\ i = 1 => writers[i].unit.url = StartUrl
        /\ i < Len(writers) =>
              /\ writers[i].stream # 0
              /\ writers[i].finished
              /\ streams[writers[i].stream].widx = i
              /\ streams[writers[i].stream].holder =
                     (IF i > cur \/ pc = "done" THEN "released" ELSE "writer")
              /\ outcome.resp.stream # writers[i].stream
              /\ returned.stream # writers[i].stream

\* the Response finish() returns after a redirect is the one of the last hop
C20_Returned ==
    (pc = "done" /\ via = "finish" /\ outcome.kind = "ok" /\ Len(writers) > 1) =>
        LET n == Len(writers)
        IN /\ returned = outcome.resp
           /\ returned.stream # 0
           /\ streams[returned.stream].widx = n
           /\ streams[returned.stream].holder = "response"
           /\ returned.url = to_string(writers[n].unit.url)
           /\ returned.unit = writers[n].unit

\* a step never changes the Unit of a writer, and the writer a redirect
\* makes starts with body_empty true and finished false
C20_Step ==
    /\ \A i \in DOMAIN writers : writers'[i].unit = writers[i].unit
    /\ Len(writers') # Len(writers) =>
          LET n == Len(writers) + 1
          IN /\ Len(writers') = n
             /\ cur' = n
             /\ writers'[n].body_empty
             /\ ~writers'[n].finished
             /\ writers'[n].stream = Len(streams')
             /\ streams'[writers'[n].stream] = NewStream(n)

\* C20: when a redirect is followed the Response finish() returns has the
\* stream, the URL and the Unit of the writer of the last hop; the stream of
\* an earlier writer is in no Response and is released only when that writer
\* is destroyed; the new writer starts with body_empty true and finished
\* false; the Unit of the earlier writer is not changed.
C20_LastHopResponse == [](C20_Hops /\ C20_Returned) /\ [][C20_Step]_vars

\* finish() has returned the 200 of the second hop at http://b/x
C20_Witness ==
    /\ pc = "done"
    /\ via = "finish"
    /\ Len(writers) = 2
    /\ returned.status = 200
    /\ returned.url = <<"http://", "b", "/x">>
    /\ returned.unit.redirects = 1
    /\ streams[returned.stream].holder = "response"
    /\ streams[writers[1].stream].holder = "released"

====
